---- MODULE Spec2Model ----
(***************************************************************************)
(* Duo-list activity board (src/Duo-list-App.py): a Streamlit script that  *)
(* keeps one JSON document in a remote store, loads it into a pandas       *)
(* DataFrame on every script run, filters it per tab, merges grid edits    *)
(* back by index label and overwrites the whole document on every save.   *)
(*                                                                         *)
(* A DataFrame is [cols, rows]: cols is its set of column labels, rows the *)
(* sequence of [idx, cells], idx the index label and cells a function from *)
(* cols to cell values.  A cell is a string or NaN.  A stored record is a  *)
(* function from the keys it carries to strings.  Every script run of a    *)
(* session is cut at its network calls (GET, PUT), the only points where   *)
(* another session can interleave.  A script run rebinds df before any     *)
(* use, so between runs (pc "idle") a session holds no table.              *)
(***************************************************************************)
EXTENDS Integers, Sequences, FiniteSets, TLC

VARIABLES remote, pc, df, loc, ev

vars == <<remote, pc, df, loc, ev>>

(* ---------------------------- bounds ----------------------------------- *)

\* most rows a loaded table may hold for "Add to List" to be pressed
MaxRecords == 2

\* the same for the runs of two sessions
MaxDuoRecords == 1

\* most records in the document the store starts with
MaxInit == 2

\* the same for the runs of two sessions
MaxSysInit == 1

Sessions == {"A", "B"}

(* ---------------------------- values ----------------------------------- *)

\* pandas' missing-cell marker (float nan)
NaN == "<NaN>"

expected_cols == {"Category", "Activity", "Type", "Vibe", "Status", "Link"}

Statuses == {"To Do", "In Progress", "Completed"}

\* the tabs rendered by the script (category_name of each render_tab call)
Categories == {"Vacation", "Gaming", "Date Night", "Challenge", "Movies", "Projects"}

\* first entry of f1_opts / f2_opts, the selectbox default, per category
f1_default(cat) ==
    CASE cat = "Vacation" -> "Summer"
      [] cat = "Movies" -> "Action"
      [] cat = "Gaming" -> "RPG"
      [] cat = "Date Night" -> "Stay In"
      [] OTHER -> "Low"

f2_default(cat) ==
    CASE cat = "Vacation" -> "Relaxing"
      [] cat = "Movies" -> "Movies"
      [] cat = "Gaming" -> "Co-op"
      [] cat = "Date Night" -> "Lazy"
      [] OTHER -> "Free"

(* ---------------------------- sequences -------------------------------- *)

RECURSIVE FilterSeq(_, _)
\* the subsequence of s whose position p satisfies keep[p]
FilterSeq(s, keep) ==
    IF s = <<>> THEN <<>>
    ELSE LET rest == FilterSeq(Tail(s), [p \in 1..(Len(s) - 1) |-> keep[p + 1]])
         IN IF keep[1] THEN <<Head(s)>> \o rest ELSE rest

(* ---------------------------- the store -------------------------------- *)

Rec(cat, act, t, v, st, l) ==
    [Category |-> cat, Activity |-> act, Type |-> t, Vibe |-> v, Status |-> st, Link |-> l]

\* the same record as an earlier schema wrote it
Legacy(r) ==
    [k \in ((DOMAIN r) \ {"Type", "Vibe", "Link"}) \cup {"Filter_1", "Filter_2"} |->
        IF k = "Filter_1" THEN r["Type"] ELSE IF k = "Filter_2" THEN r["Vibe"] ELSE r[k]]

\* the same record with a key left out by a manual edit
Without(r, key) == [k \in (DOMAIN r) \ {key} |-> r[k]]

BaseRecords ==
    { Rec("Vacation", "a1", "Summer", "Relaxing", "To Do", ""),
      Rec("Vacation", "a2", "Winter", "City", "To Do", "url"),
      Without(Rec("Vacation", "a6", "Summer", "City", "To Do", ""), "Link"),
      Rec("Gaming", "a3", "RPG", "Co-op", "To Do", ""),
      Rec("", "a4", "Low", "Free", "To Do", ""),
      Without(Rec("Gaming", "a5", "RPG", "Single", "Completed", ""), "Category") }

\* the records of the documents the two-session runs start from
SysRecords ==
    { Rec("Vacation", "a2", "Winter", "City", "To Do", "url"),
      Rec("", "a4", "Low", "Free", "To Do", "") }

\* what the store holds: the array of records, possibly wrapped once more
\* in an object {"record": [...]} by a manual edit, in the current or in
\* the earlier schema
Docs(base, n) ==
    { [wrapped |-> w, recs |-> IF leg THEN [i \in DOMAIN l |-> Legacy(l[i])] ELSE l] :
        w \in BOOLEAN, leg \in BOOLEAN, l \in UNION { [1..k -> base] : k \in 0..n } }

InitDocs == Docs(BaseRecords, MaxInit)

SysDocs == Docs(SysRecords, MaxSysInit)

\* the parsed body of GET /latest: kind "array" is {"record": [...]},
\* "object" is {"record": {"record": [...]}}, "norecord" has no record key,
\* "raise" is a transport or parse exception
Fetch(doc, outcome) ==
    CASE outcome = "ok" -> [kind |-> IF doc.wrapped THEN "object" ELSE "array", recs |-> doc.recs]
      [] outcome = "norecord" -> [kind |-> "norecord", recs |-> <<>>]
      [] OTHER -> [kind |-> "raise", recs |-> <<>>]

FetchOutcomes == {"ok", "norecord", "raise"}

(* ---------------------------- DataFrame -------------------------------- *)

\* pd.DataFrame(records): columns are the union of the keys, a key a record
\* lacks is NaN in its row, the index is 0..n-1
DataFrame(records) ==
    LET cols == UNION { DOMAIN records[i] : i \in DOMAIN records }
    IN [cols |-> cols,
        rows |-> [i \in DOMAIN records |->
                    [idx |-> i - 1,
                     cells |-> [c \in cols |-> IF c \in DOMAIN records[i]
                                               THEN records[i][c] ELSE NaN]]]]

EmptyFrame == [cols |-> expected_cols, rows |-> <<>>]

\* df.rename(columns={old: new}) guarded by `old in df.columns`
Rename(d, old, new) ==
    IF old \in d.cols
    THEN LET cols == (d.cols \ {old}) \cup {new}
         IN [cols |-> cols,
             rows |-> [i \in DOMAIN d.rows |->
                         [idx |-> d.rows[i].idx,
                          cells |-> [c \in cols |-> IF c = new THEN d.rows[i].cells[old]
                                                    ELSE d.rows[i].cells[c]]]]]
    ELSE d

Migrate_none(d) == d

\* lines 51-54: Filter_1 -> Type, then Filter_2 -> Vibe
Migrate(d) == Rename(Rename(d, "Filter_1", "Type"), "Filter_2", "Vibe")

\* for col in expected_cols: if col not in df.columns: df[col] = ""
ForceCols(d) ==
    LET cols == d.cols \cup expected_cols
    IN [cols |-> cols,
        rows |-> [i \in DOMAIN d.rows |->
                    [idx |-> d.rows[i].idx,
                     cells |-> [c \in cols |-> IF c \in d.cols THEN d.rows[i].cells[c]
                                               ELSE ""]]]]

\* bool(v) as astype(bool) applies it to a cell: "" is False, nan is True
Truthy(v) == v # ""

\* df[df["Category"].astype(bool)]: rows keep their index labels
DropFalsy(d) ==
    [cols |-> d.cols,
     rows |-> FilterSeq(d.rows, [p \in DOMAIN d.rows |-> Truthy(d.rows[p].cells["Category"])])]

\* records = data.get("record", []); a dict is replaced by []
Records(data) == IF data.kind = "array" THEN data.recs ELSE <<>>

load_data(data) ==
    IF data.kind = "raise" THEN EmptyFrame
    ELSE DropFalsy(ForceCols(Migrate(DataFrame(Records(data)))))

\* pd.concat([df, pd.DataFrame([new_row])], ignore_index=True)
Concat(d, new_row) ==
    LET cols == d.cols \cup DOMAIN new_row
        n == Len(d.rows)
    IN [cols |-> cols,
        rows |-> [i \in 1..(n + 1) |->
                    [idx |-> i - 1,
                     cells |-> [c \in cols |->
                                  IF i <= n
                                  THEN (IF c \in d.cols THEN d.rows[i].cells[c] ELSE NaN)
                                  ELSE (IF c \in DOMAIN new_row THEN new_row[c] ELSE NaN)]]]]

\* df.to_dict(orient="records")
to_dict(d) == [i \in DOMAIN d.rows |-> d.rows[i].cells]

HasNaN(d) == \E i \in DOMAIN d.rows : \E c \in d.cols : d.rows[i].cells[c] = NaN

\* what requests.put(..., json=json_data) can come to: a frame holding nan
\* cannot be serialised (InvalidJSONError, caught at line 86); otherwise the
\* store answers 200 or not
PutOutcomes(d) == IF HasNaN(d) THEN {"fail"} ELSE {"ok", "fail"}

StorePut_merge(doc, json_data) ==
    [wrapped |-> FALSE,
     recs |-> SelectSeq(doc.recs, LAMBDA r : \A j \in DOMAIN json_data : json_data[j] # r)
              \o json_data]

\* the store after a PUT answered 200: the body replaces the document
StorePut(doc, json_data) == [wrapped |-> FALSE, recs |-> json_data]

\* create_google_sheet_tab: the link on a 200 answer, "" otherwise
ProvOutcomes == {"ok", "non200", "raise"}

create_google_sheet_tab_text(outcome) == IF outcome = "ok" THEN "sheet_url" ELSE "error"

create_google_sheet_tab(outcome) == IF outcome = "ok" THEN "sheet_url" ELSE ""

\* rows of d (a frame) whose position satisfies keep
Select(d, keep) == [cols |-> d.cols, rows |-> FilterSeq(d.rows, keep)]

\* df[(df["Category"] == category_name) & (df["Status"] == target_status)]
BySlot(d, category_name, target_status) ==
    Select(d, [p \in DOMAIN d.rows |-> /\ d.rows[p].cells["Category"] = category_name
                                       /\ d.rows[p].cells["Status"] = target_status])

ByIsin_strict(d, col, vals) ==
    Select(d, [p \in DOMAIN d.rows |-> d.rows[p].cells[col] \in vals])

\* if vals: subset = subset[subset[col].isin(vals)]
ByIsin(d, col, vals) ==
    IF vals # {} THEN Select(d, [p \in DOMAIN d.rows |-> d.rows[p].cells[col] \in vals])
    ELSE d

\* subset[col].unique()
Unique(d, col) == { d.rows[p].cells[col] : p \in DOMAIN d.rows }

\* the subset handed to the editor (lines 164, 190-193)
filter(d, category_name, target_status, f1_val, f2_val) ==
    ByIsin(ByIsin(BySlot(d, category_name, target_status), "Type", f1_val), "Vibe", f2_val)

Equals_elementwise(a, b) ==
    /\ a.cols = b.cols
    /\ Len(a.rows) = Len(b.rows)
    /\ \A i \in DOMAIN a.rows :
         /\ a.rows[i].idx = b.rows[i].idx
         /\ \A c \in a.cols : /\ a.rows[i].cells[c] = b.rows[i].cells[c]
                               /\ a.rows[i].cells[c] # NaN

\* DataFrame.equals: same labels and cell-wise equal, nan equal to nan
Equals(a, b) ==
    /\ a.cols = b.cols
    /\ Len(a.rows) = Len(b.rows)
    /\ \A i \in DOMAIN a.rows :
         /\ a.rows[i].idx = b.rows[i].idx
         /\ \A c \in a.cols : a.rows[i].cells[c] = b.rows[i].cells[c]

update_by_position(d, other) ==
    [cols |-> d.cols,
     rows |-> [i \in DOMAIN d.rows |->
                 IF i \in DOMAIN other.rows
                 THEN [idx |-> d.rows[i].idx,
                       cells |-> [c \in d.cols |->
                                    IF c \in other.cols /\ other.rows[i].cells[c] # NaN
                                    THEN other.rows[i].cells[c]
                                    ELSE d.rows[i].cells[c]]]
                 ELSE d.rows[i]]]

\* df.update(other): aligned on index label and column, nan in other skipped
update(d, other) ==
    [cols |-> d.cols,
     rows |-> [i \in DOMAIN d.rows |->
                 IF \E j \in DOMAIN other.rows : other.rows[j].idx = d.rows[i].idx
                 THEN LET j == CHOOSE j \in DOMAIN other.rows : other.rows[j].idx = d.rows[i].idx
                      IN [idx |-> d.rows[i].idx,
                          cells |-> [c \in d.cols |->
                                       IF c \in other.cols /\ other.rows[j].cells[c] # NaN
                                       THEN other.rows[j].cells[c]
                                       ELSE d.rows[i].cells[c]]]
                 ELSE d.rows[i]]]

\* the grid's result: the subset, one row's Status possibly set anew to
\* one of the options the user picks from
NoEdit == [idx |-> -1, Status |-> ""]

Edits(subset, picks) == {NoEdit} \cup { [idx |-> subset.rows[p].idx, Status |-> st] :
                                          p \in DOMAIN subset.rows, st \in picks }

data_editor(subset, edit) ==
    [cols |-> subset.cols,
     rows |-> [i \in DOMAIN subset.rows |->
                 IF subset.rows[i].idx = edit.idx
                 THEN [idx |-> subset.rows[i].idx,
                       cells |-> [subset.rows[i].cells EXCEPT !["Status"] = edit.Status]]
                 ELSE subset.rows[i]]]

(* ---------------------------- events ----------------------------------- *)

NoData == [kind |-> "raise", recs |-> <<>>]

NoEv == [op |-> "init", s |-> "A"]

\* a run's locals besides df: the body it fetched, the row it adds and
\* how the provisioning call ended
NoLoc == [data |-> NoData, new_row |-> Rec("", "", "", "", "", ""), prov |-> "skipped"]

\* what a user does: the categories added, the tabs opened, the views
\* toggled, the Status options picked in the grid, the names typed,
\* whether the Type and Vibe multiselects are used, and the length of the
\* loaded table up to which a record is added
UserAll ==
    [adds |-> Categories, tabs |-> Categories, views |-> Statuses, picks |-> Statuses,
     names |-> {"", "n1"}, filters |-> TRUE, max |-> MaxRecords]

\* the users of the two-session runs: they add games and move items on
\* from the "To Do" view
UserDuo ==
    [adds |-> {"Gaming"}, tabs |-> {"Vacation", "Gaming"}, views |-> {"To Do"},
     picks |-> {"In Progress", "Completed"},
     names |-> {"n1"}, filters |-> FALSE, max |-> MaxDuoRecords]

Multiselect(U, options) == IF U.filters THEN SUBSET options ELSE {{}}

(* ---------------------------- actions ---------------------------------- *)

InitWith(docs) ==
    /\ remote \in docs
    /\ pc = [s \in Sessions |-> "idle"]
    /\ df = [s \in Sessions |-> EmptyFrame]
    /\ loc = [s \in Sessions |-> NoLoc]
    /\ ev = NoEv

Init == InitWith(SysDocs)

\* lines 124-125: "Add to List" pressed with an empty name does nothing
AddNoName(s, U) ==
    /\ pc[s] = "idle"
    /\ \E new_cat \in U.adds : \E new_act \in U.names :
         /\ new_act = ""
         /\ ev' = [op |-> "add_noname", s |-> s]
    /\ UNCHANGED <<remote, pc, df, loc>>

\* lines 126-142: load, provision the tab for a Vacation, append the row
AddLoad(s, U) ==
    /\ pc[s] = "idle"
    /\ \E new_cat \in U.adds : \E new_act \in U.names : \E o \in FetchOutcomes :
       \E p \in (IF new_cat = "Vacation" THEN ProvOutcomes ELSE {"skipped"}) :
         LET data == Fetch(remote, o)
             new_link == IF new_cat = "Vacation" THEN create_google_sheet_tab(p) ELSE ""
             new_row == Rec(new_cat, new_act, f1_default(new_cat), f2_default(new_cat),
                            "To Do", new_link)
         IN /\ new_act # ""
            /\ Len(load_data(data).rows) < U.max
            /\ df' = [df EXCEPT ![s] = Concat(load_data(data), new_row)]
            /\ loc' = [loc EXCEPT ![s] = [data |-> data, new_row |-> new_row,
                                          prov |-> p]]
            /\ ev' = [op |-> "add_load", s |-> s, data |-> data]
    /\ pc' = [pc EXCEPT ![s] = "add"]
    /\ UNCHANGED remote

\* lines 143-145: save_data(df); success message and rerun on True
AddSave(s) ==
    /\ pc[s] = "add"
    /\ \E r \in PutOutcomes(df[s]) :
         /\ remote' = IF r = "ok" THEN StorePut(remote, to_dict(df[s])) ELSE remote
         /\ ev' = [op |-> "add", s |-> s, put |-> r, new_row |-> loc[s].new_row,
                   prov |-> loc[s].prov, data |-> loc[s].data, prev |-> remote.recs,
                   after |-> df[s],
                   msgs |-> (IF r = "ok" THEN {"Added"} ELSE {"Error saving data"})
                            \cup (IF loc[s].prov \in {"non200", "raise"}
                                  THEN {"Sheet/Connection Error"} ELSE {})]
    /\ pc' = [pc EXCEPT ![s] = "idle"]
    /\ loc' = [loc EXCEPT ![s] = NoLoc]
    /\ df' = [df EXCEPT ![s] = EmptyFrame]

\* line 148: df = load_data() at the top of the main display
MainLoad(s) ==
    /\ pc[s] = "idle"
    /\ \E o \in FetchOutcomes :
         LET data == Fetch(remote, o)
         IN /\ df' = [df EXCEPT ![s] = load_data(data)]
            /\ ev' = [op |-> "load", s |-> s, data |-> data]
            /\ loc' = [loc EXCEPT ![s] = [NoLoc EXCEPT !.data = data]]
    /\ pc' = [pc EXCEPT ![s] = "main"]
    /\ UNCHANGED remote

\* lines 162-220: render_tab with the grid's result; a changed grid is
\* merged into df and the whole table is saved
Render(s, U) ==
    /\ pc[s] = "main"
    /\ \E category_name \in U.tabs : \E target_status \in U.views :
         LET subset0 == BySlot(df[s], category_name, target_status)
         IN IF subset0.rows = <<>>
            THEN /\ ev' = [op |-> "render_empty", s |-> s, category_name |-> category_name,
                           target_status |-> target_status, before |-> df[s], put |-> "none"]
                 /\ df' = [df EXCEPT ![s] = EmptyFrame]
                 /\ UNCHANGED remote
            ELSE \E f1_val \in Multiselect(U, Unique(subset0, "Type")) :
                 \E f2_val \in Multiselect(U, Unique(subset0, "Vibe")) :
                   LET subset == filter(df[s], category_name, target_status, f1_val, f2_val)
                   IN \E edit \in Edits(subset, U.picks) :
                        LET edited_df == data_editor(subset, edit)
                            changed == ~Equals(subset, edited_df)
                            merged == IF changed THEN update(df[s], edited_df) ELSE df[s]
                        IN \E r \in (IF changed THEN PutOutcomes(merged) ELSE {"none"}) :
                             /\ df' = [df EXCEPT ![s] = EmptyFrame]
                             /\ remote' = IF r = "ok" THEN StorePut(remote, to_dict(merged))
                                          ELSE remote
                             /\ ev' = [op |-> "render", s |-> s,
                                       category_name |-> category_name,
                                       target_status |-> target_status,
                                       f1_val |-> f1_val, f2_val |-> f2_val,
                                       before |-> df[s], after |-> merged,
                                       data |-> loc[s].data, prev |-> remote.recs,
                                       subset |-> subset,
                                       edit |-> edit, edited_df |-> edited_df,
                                       changed |-> changed, put |-> r,
                                       msgs |-> CASE r = "ok" -> {"Saved!"}
                                                  [] r = "fail" -> {"Error saving data"}
                                                  [] OTHER -> {}]
    /\ pc' = [pc EXCEPT ![s] = "idle"]
    /\ loc' = [loc EXCEPT ![s] = NoLoc]

\* lines 222-231: the random picker of the "To Do" view, pressed on a grid
\* left as it was
Pick(s, U) ==
    /\ pc[s] = "main"
    /\ \E category_name \in U.tabs :
         LET subset0 == BySlot(df[s], category_name, "To Do")
         IN /\ subset0.rows # <<>>
            /\ \E f1_val \in Multiselect(U, Unique(subset0, "Type")) :
               \E f2_val \in Multiselect(U, Unique(subset0, "Vibe")) :
                 LET subset == filter(df[s], category_name, "To Do", f1_val, f2_val)
                 IN IF subset.rows # <<>>
                    THEN \E p \in DOMAIN subset.rows :
                           ev' = [op |-> "pick", s |-> s, subset |-> subset,
                                  choice |-> <<subset.rows[p]>>, msgs |-> {"You should do"}]
                    ELSE ev' = [op |-> "pick", s |-> s, subset |-> subset,
                                choice |-> <<>>, msgs |-> {}]
    /\ pc' = [pc EXCEPT ![s] = "idle"]
    /\ df' = [df EXCEPT ![s] = EmptyFrame]
    /\ loc' = [loc EXCEPT ![s] = NoLoc]
    /\ UNCHANGED remote

\* two sessions adding and editing against the one document
Next ==
    \E s \in Sessions :
        \/ AddLoad(s, UserDuo)
        \/ AddSave(s)
        \/ MainLoad(s)
        \/ Render(s, UserDuo)

Spec == Init /\ [][Next]_vars

\* one session that only reads: loads and picks
NextLoad == MainLoad("A") \/ Pick("A", UserAll)

SpecLoad == InitWith(InitDocs) /\ [][NextLoad]_vars

\* one session that reads and edits
NextEdit == MainLoad("A") \/ Render("A", UserAll)

SpecEdit == InitWith(InitDocs) /\ [][NextEdit]_vars

\* one session that adds
NextAdd == AddNoName("A", UserAll) \/ AddLoad("A", UserAll) \/ AddSave("A")

SpecAdd == InitWith(InitDocs) /\ [][NextAdd]_vars

(* ---------------------------- properties ------------------------------- *)

Range(q) == { q[i] : i \in DOMAIN q }

Failed(prov) == prov \in {"non200", "raise"}

\* C1: loading the double-wrapped document {"record": {"record": A}} gives
\* the table that loading {"record": A} gives
C1_DoubleWrapUnwrapped ==
    \A s \in Sessions :
        (pc[s] = "main" /\ ev.op = "load" /\ ev.s = s /\ ev.data.kind = "object")
            => df[s] = load_data([kind |-> "array", recs |-> ev.data.recs])

\* C2: no step of any session removes a record from the remote document:
\* every Activity stored before the step is stored after it
C2_NeverDeleted ==
    [][\A i \in DOMAIN remote.recs :
          \E j \in DOMAIN remote'.recs :
              remote'.recs[j]["Activity"] = remote.recs[i]["Activity"]]_vars

\* C3: every row of a loaded table has a non-empty Category; records whose
\* Category is empty or missing are gone from it
C3_NoEmptyCategory ==
    \A s \in Sessions :
        pc[s] = "main" =>
            \A i \in DOMAIN df[s].rows : df[s].rows[i].cells["Category"] \notin {"", NaN}

\* the grid changed the Status of one row of the subset
OneStatusEdited ==
    /\ ev.op = "render"
    /\ \E i \in DOMAIN ev.subset.rows :
         /\ ev.subset.rows[i].idx = ev.edit.idx
         /\ ev.subset.rows[i].cells["Status"] # ev.edit.Status

\* C4: when the grid changed the Status of one row, the merged table is the
\* table before the merge except for the Status of the row with that index
\* label, and a write-back is attempted
C4_PositionalMerge ==
    OneStatusEdited =>
        /\ ev.changed
        /\ ev.put \in {"ok", "fail"}
        /\ ev.after.cols = ev.before.cols
        /\ Len(ev.after.rows) = Len(ev.before.rows)
        /\ \A i \in DOMAIN ev.before.rows :
             /\ ev.after.rows[i].idx = ev.before.rows[i].idx
             /\ \A c \in ev.before.cols :
                  ev.after.rows[i].cells[c] =
                      IF ev.before.rows[i].idx = ev.edit.idx /\ c = "Status"
                      THEN ev.edit.Status
                      ELSE ev.before.rows[i].cells[c]

\* a Status edit was merged into a table holding a row outside the subset
C4_Witness ==
    /\ OneStatusEdited
    /\ ev.put = "ok"
    /\ \E i \in DOMAIN ev.before.rows :
         \A j \in DOMAIN ev.subset.rows : ev.subset.rows[j].idx # ev.before.rows[i].idx

\* C5: when the grid returns the subset with no cell changed, the table is
\* left as it was and no write to the store is issued
C5_NoChangeNoWrite ==
    (ev.op = "render" /\ ev.edited_df = ev.subset) =>
        /\ ev.changed = FALSE
        /\ ev.after = ev.before
        /\ ev.put = "none"
        /\ remote.recs = ev.prev

\* an unchanged grid over a subset that holds a nan cell
C5_Witness ==
    /\ ev.op = "render"
    /\ ev.edited_df = ev.subset
    /\ ev.subset.rows # <<>>
    /\ HasNaN(ev.subset)
    /\ Len(ev.before.rows) > Len(ev.subset.rows)

\* C6: a loaded record that carried Filter_1 / Filter_2 has those values
\* under Type / Vibe, and the table has no Filter_1 or Filter_2 column
C6_LegacyMigrated ==
    \A s \in Sessions :
        (pc[s] = "main" /\ ev.op = "load" /\ ev.s = s /\ ev.data.kind = "array") =>
            /\ "Filter_1" \notin df[s].cols
            /\ "Filter_2" \notin df[s].cols
            /\ \A i \in DOMAIN df[s].rows :
                 LET raw == ev.data.recs[df[s].rows[i].idx + 1]
                 IN /\ "Filter_1" \in DOMAIN raw => df[s].rows[i].cells["Type"] = raw["Filter_1"]
                    /\ "Filter_2" \in DOMAIN raw => df[s].rows[i].cells["Vibe"] = raw["Filter_2"]

\* a legacy document was loaded and a migrated row is in the table
C6_Witness ==
    /\ ev.op = "load"
    /\ pc[ev.s] = "main"
    /\ ev.data.kind = "array"
    /\ \E i \in DOMAIN df[ev.s].rows :
         /\ "Filter_1" \in DOMAIN ev.data.recs[df[ev.s].rows[i].idx + 1]
         /\ df[ev.s].rows[i].cells["Type"] = "Winter"
         /\ df[ev.s].rows[i].cells["Vibe"] = "City"

\* C7: the picker on a one-row subset returns that row, and on an empty
\* subset it signals an error
C7_PickContract ==
    ev.op = "pick" =>
        /\ Len(ev.subset.rows) = 1 => ev.choice = <<ev.subset.rows[1]>>
        /\ ev.subset.rows = <<>> => "empty selection" \in ev.msgs

\* C8: a Vacation added while the provisioning call fails gets Link "" and
\* is the last row of the table handed to save_data; when the store takes
\* the write, it is the last record of the document and the add is
\* reported as successful
C8_ProvisionFailureDoesNotBlock ==
    /\ \A s \in Sessions :
         (pc[s] = "add" /\ loc[s].new_row.Category = "Vacation" /\ Failed(loc[s].prov)) =>
             /\ loc[s].new_row.Link = ""
             /\ df[s].rows # <<>>
             /\ \A c \in expected_cols :
                  df[s].rows[Len(df[s].rows)].cells[c] = loc[s].new_row[c]
    /\ (ev.op = "add" /\ ev.new_row.Category = "Vacation" /\ Failed(ev.prov)
            /\ ev.put = "ok") =>
             /\ "Added" \in ev.msgs
             /\ remote.recs # <<>>
             /\ remote.recs[Len(remote.recs)]["Link"] = ""
             /\ \A c \in expected_cols :
                  remote.recs[Len(remote.recs)][c] = ev.new_row[c]

\* a Vacation was added to a stored record although provisioning failed
C8_Witness ==
    /\ ev.op = "add"
    /\ ev.new_row.Category = "Vacation"
    /\ Failed(ev.prov)
    /\ ev.put = "ok"
    /\ Len(remote.recs) >= 2

\* the rows filter has to return
Wanted(row, e) ==
    /\ row.cells["Category"] = e.category_name
    /\ row.cells["Status"] = e.target_status
    /\ (e.f1_val = {} \/ row.cells["Type"] \in e.f1_val)
    /\ (e.f2_val = {} \/ row.cells["Vibe"] \in e.f2_val)

\* C9: the subset shown holds exactly the rows of the table with the tab's
\* Category, the view's Status and, per non-empty multiselect, a Type / Vibe
\* among the selected values, in the table's order
C9_FilterExact ==
    ev.op = "render" =>
        /\ \A i \in DOMAIN ev.subset.rows :
             /\ ev.subset.rows[i] \in Range(ev.before.rows)
             /\ Wanted(ev.subset.rows[i], ev)
        /\ \A i \in DOMAIN ev.before.rows :
             Wanted(ev.before.rows[i], ev) => ev.before.rows[i] \in Range(ev.subset.rows)
        /\ \A i, j \in DOMAIN ev.subset.rows :
             i < j => ev.subset.rows[i].idx < ev.subset.rows[j].idx
        /\ \A i, j \in DOMAIN ev.before.rows :
             i < j => ev.before.rows[i].idx < ev.before.rows[j].idx

\* a Type selection kept one row of the slot and removed another
C9_Witness ==
    /\ ev.op = "render"
    /\ ev.f1_val # {}
    /\ ev.f2_val = {}
    /\ ev.subset.rows # <<>>
    /\ \E i \in DOMAIN ev.before.rows :
         /\ ev.before.rows[i].cells["Category"] = ev.category_name
         /\ ev.before.rows[i].cells["Status"] = ev.target_status
         /\ ev.before.rows[i] \notin Range(ev.subset.rows)

\* C10: a write the store accepts leaves the document equal to the writer's
\* table alone, whatever another session stored since the writer's load,
\* and the writer is shown nothing but the success notice
C10_LastWriterWins ==
    (ev.op \in {"add", "render"} /\ ev.put = "ok") =>
        /\ remote.recs = to_dict(ev.after)
        /\ remote.wrapped = FALSE
        /\ ev.msgs \subseteq {"Added", "Saved!", "Sheet/Connection Error"}

\* a session's write removed a record another session stored after the
\* writer had loaded the document
C10_Witness ==
    /\ ev.op \in {"add", "render"}
    /\ ev.put = "ok"
    /\ ev.data.kind = "array"
    /\ \E i \in DOMAIN ev.prev :
         /\ ev.prev[i] \notin Range(ev.data.recs)
         /\ ev.prev[i] \notin Range(remote.recs)

====
